---- MODULE Spec2Model ----
\* Model of the Bloombox telemetry event pipeline:
\*   src/src/telemetry/event.js  (BaseEvent: construction, trampolines,
\*                                generateRPC, dispatch, abort, context)
\*   src/unnamed/part_001        (QueuedEvent, EventQueue)
\*   src/unnamed/part_000        (setup, boot, sendInitialEvents)
EXTENDS Integers, Sequences, FiniteSets, TLC

\* ---------------------------------------------------------------------
\* Bounds of the model
\* ---------------------------------------------------------------------
NumEvents == 2        \* event objects the application constructs
NumFns == 2           \* distinct callback functions the application owns
MaxClock == 3         \* largest value of the wall clock, +(new Date)
MaxPriority == 5      \* priorities are 1..MaxPriority
MaxQueue == 3         \* largest number of queued events
MaxCalls == 2         \* cap on the per-dispatch callback invocation counters
NumObjects == 1       \* payload objects the application owns
MaxPings == 2         \* pings bloombox.telemetry.boot may have issued
MaxDepth == 1         \* nested trampoline calls a callback makes

\* ---------------------------------------------------------------------
\* JavaScript values
\* ---------------------------------------------------------------------
\* Callback slot values: null, undefined, a truthy value that is not a
\* function, and the functions 1..NumFns.
NULL == 0
UNDEFINED == -2
NOTFN == -3
Fns == 1..NumFns
CallbackArgs == {NULL, UNDEFINED, NOTFN} \cup Fns

\* Strings: 0 is the empty string (what a proto getter returns for an unset
\* field); 1 is a value an event's own context carries and 2 a value the
\* global context carries.
LocalContexts == [fingerprint : {0, 1}, group : {0, 1}]
GlobalContexts == [fingerprint : {0, 2}, group : {0, 2}]
ValidContext == [fingerprint |-> 1, group |-> 1]
EmptyContext == [fingerprint |-> 0, group |-> 0]

\* Timestamps: NotGiven stands for an omitted (undefined) argument.
NotGiven == -1
Times == 0..MaxClock

\* Operation status values handed to the trampolines.
OK == 1
ERROR == 2
Statuses == {OK, ERROR}

Events == 1..NumEvents
Priorities == 1..MaxPriority

\* JavaScript truthiness of the integer-coded values above.
Truthy(v) == v # 0 /\ v # UNDEFINED /\ v # NotGiven

\* typeof v === 'function'
IsFunction(v) == v \in Fns

\* Plain objects are sets of <<key, value>> pairs with distinct keys; values
\* are sequences of integers.  Keys: 1 is 'context', 2 is 'a'.
KeyContext == 1
KeyA == 2
Keys(obj) == {kv[1] : kv \in obj}

\* An assign in which a key of a is kept when b has it too.
ObjectAssignFirstWins(a, b) == a \cup {kv \in b : kv[1] \notin Keys(a)}

\* Object.assign({}, a, b): own keys of a, overridden and extended by b.
ObjectAssign(a, b) == {kv \in a : kv[1] \notin Keys(b)} \cup b

\* ---------------------------------------------------------------------
\* goog.structs.PriorityQueue, the binary min-heap the EventQueue wraps
\* (part_001 line 72).  Nodes are [key, value] records, index 0 is the root.
\* ---------------------------------------------------------------------
RECURSIVE MoveUp(_, _, _)
MoveUp(nodes, i, node) ==
  LET parent == (i - 1) \div 2 IN
  IF i > 0 /\ nodes[parent + 1].key > node.key
  THEN MoveUp([nodes EXCEPT ![i + 1] = nodes[parent + 1]], parent, node)
  ELSE [nodes EXCEPT ![i + 1] = node]

RECURSIVE MoveDown(_, _, _)
MoveDown(nodes, i, node) ==
  LET count == Len(nodes)
      left == 2 * i + 1
      right == 2 * i + 2
      smaller == IF right < count /\ nodes[right + 1].key < nodes[left + 1].key
                 THEN right ELSE left
  IN
  IF i < count \div 2 /\ ~(nodes[smaller + 1].key > node.key)
  THEN MoveDown([nodes EXCEPT ![i + 1] = nodes[smaller + 1]], smaller, node)
  ELSE [nodes EXCEPT ![i + 1] = node]

\* PriorityQueue.enqueue(priority, value)
HeapInsert(nodes, key, value) ==
  LET node == [key |-> key, value |-> value] IN
  MoveUp(Append(nodes, node), Len(nodes), node)

\* PriorityQueue.dequeue(): the removed value as <<v>>, or <<>> for the
\* undefined an empty heap returns, and the heap afterwards.
\* key is the priority the removed value was filed under.
HeapRemove(nodes) ==
  IF Len(nodes) = 0 THEN [value |-> <<>>, key |-> <<>>, nodes |-> nodes]
  ELSE IF Len(nodes) = 1
  THEN [value |-> <<nodes[1].value>>, key |-> <<nodes[1].key>>,
        nodes |-> <<>>]
  ELSE LET lastNode == nodes[Len(nodes)]
           rest == SubSeq(nodes, 1, Len(nodes) - 1)
       IN [value |-> <<nodes[1].value>>, key |-> <<nodes[1].key>>,
           nodes |-> MoveDown([rest EXCEPT ![1] = lastNode], 0, lastNode)]

\* ---------------------------------------------------------------------
\* part_001: QueuedEvent, prepareQueuedEvent
\* ---------------------------------------------------------------------
\* bloombox.util.generateUUID(): the n-th generated identifier.  Generated
\* identifiers are disjoint from the ones callers supply.
GenBase == 100
generateUUID(n) == GenBase + n

QueuedEvent(uuid, rpc) == [rpc |-> rpc, uuid |-> uuid]

\* optUuid = NotGiven models the omitted (undefined) argument; seq is the
\* number of identifiers generated so far.
prepareQueuedEvent(rpc, optUuid, seq) ==
  LET uuid == IF optUuid = NotGiven THEN generateUUID(seq + 1) ELSE optUuid
  IN QueuedEvent(uuid, rpc)

\* ---------------------------------------------------------------------
\* State
\* ---------------------------------------------------------------------
VARIABLES
  telemetry,      \* bloombox.telemetry at startup: the opt-out flag, the
                  \* pings in flight and the last log line
  clock,          \* +(new Date)
  uuidSeq,        \* number of identifiers generateUUID has produced
  globalContext,  \* bloombox.telemetry.globalContext().export()
  objects,        \* caller-owned payload objects: [frozen, fields]
  events,         \* the BaseEvent instances
  ctorArgs,       \* the arguments each event was constructed with
  queue,          \* EventQueue.queue, the heap's node array
  batch,          \* the mapper calls of the last EventQueue.dequeue (amount
                  \* asked, length before, values handed), until the next
                  \* enqueue
  inflight,       \* queued events the mapper handed to the transport
  sCount,         \* invocations of the success callback of the last dispatch
  fCount,         \* invocations of the failure callback of the last dispatch
  hist,           \* per event: the callbacks the last dispatch was given, the
                  \* functions it displaced from the slots, and the
                  \* trampoline invocations on the event since
  last            \* outcome of the last operation

vars == <<telemetry, clock, uuidSeq, globalContext, objects, events,
          ctorArgs, queue, batch, inflight, sCount, fCount, hist, last>>

ObjIds == 1..NumObjects

\* An event slot before `new BaseEvent(...)` has run for it.
NoEvent ==
  [constructed |-> FALSE, uuid |-> 0, operation |-> 0,
   context |-> [fingerprint |-> 0, group |-> 0], payload |-> NULL,
   occurred |-> 0, successCallback |-> NULL, failureCallback |-> NULL]

NoArgs ==
  [occurred |-> NotGiven, uuid |-> 0, payload |-> NULL, fields |-> {},
   at |-> 0, id |-> 0]

NoHist == [s |-> NULL, f |-> NULL, onS |-> 0, onF |-> 0, old |-> {}]

Min(a, b) == IF a < b THEN a ELSE b

\* Outcome of an operation: which one, on which event (0 for none), its
\* arguments, the exception it threw ("" for none), the callback invocation
\* it made (<<>> for none, else <<[fn, args]>>) and the value it returned or
\* passed on (<<>> for none).
Outcome(op, e, args, threw, call, value) ==
  [op |-> op, e |-> e, args |-> args, threw |-> threw, call |-> call,
   value |-> value]

NoBatch == [amount |-> 0, n |-> 0, handed |-> <<>>, keys |-> <<>>]

\* ---------------------------------------------------------------------
\* event.js: BaseEvent
\* ---------------------------------------------------------------------
\* The constructor, lines 222-284.  optPayload is NULL or an object id,
\* optOccurred is NotGiven or a time, optUuid is 0 ('' or omitted) or an
\* identifier.
NewBaseEvent(context, method, optPayload, optOccurred, optUuid, seq, now) ==
  [constructed |-> TRUE,
   uuid |-> IF Truthy(optUuid) THEN optUuid ELSE generateUUID(seq + 1),
   operation |-> method,
   context |-> context,
   payload |-> IF Truthy(optPayload) THEN optPayload ELSE NULL,
   occurred |-> IF Truthy(optOccurred) THEN optOccurred ELSE now,
   successCallback |-> NULL,
   failureCallback |-> NULL]

\* The constructor keeping the caller's object as it is.
FreezePayloadSkipped(objs, optPayload) == objs

\* Lines 252-253: Object.freeze(opt_payload) when one is given and it is not
\* frozen already.
FreezePayload(objs, optPayload) ==
  IF Truthy(optPayload) /\ ~objs[optPayload].frozen
  THEN [objs EXCEPT ![optPayload].frozen = TRUE]
  ELSE objs

\* obj[key] = value by the code that owns the object.  On a frozen object
\* (line 253) the assignment changes nothing: it is ignored in sloppy code
\* and throws a TypeError in strict code.
WriteField(objs, o, key, value, strict) ==
  IF objs[o].frozen
  THEN [threw |-> IF strict THEN "TypeError" ELSE "", objs |-> objs]
  ELSE [threw |-> "",
        objs |-> [objs EXCEPT ![o].fields =
                    ObjectAssign(@, {<<key, value>>})]]

renderUUID(ev) == ev.uuid

renderOccurrence(ev, now) == IF Truthy(ev.occurred) THEN ev.occurred ELSE now

\* The documented implementation of the abstract renderPayload (lines
\* 313-321): the payload attached at construction, or null.
renderPayload(ev) == ev.payload

\* The documented implementation of the abstract rpcMethod (lines 290-296).
rpcMethod(ev) == ev.operation

\* bloombox.util.proto.merge(local, global): field-wise, a field set in
\* local wins, otherwise the global field is kept.
ProtoMerge(local, global) ==
  [fingerprint |-> IF local.fingerprint # 0 THEN local.fingerprint
                   ELSE global.fingerprint,
   group |-> IF local.group # 0 THEN local.group ELSE global.group]

\* validateContext with the group check left out.
validateContextFingerprintOnly(context) ==
  IF ~Truthy(context.fingerprint) THEN "ContextException" ELSE ""

\* validateContext, lines 510-518: the exception it throws, "" for none.
validateContext(context) ==
  IF ~Truthy(context.fingerprint) THEN "ContextException"
  ELSE IF ~Truthy(context.group) THEN "ContextException"
  ELSE ""

\* renderContext with the call of validateContext left out.
renderContextUnvalidated(ev, global) ==
  [threw |-> "", value |-> <<ProtoMerge(ev.context, global)>>,
   global |-> global]

\* renderContext with the arguments of merge exchanged.
renderContextGlobalWins(ev, global) ==
  LET local == ev.context
      merged == ProtoMerge(global, local)
      threw == validateContext(merged)
  IN [threw |-> threw, value |-> IF threw = "" THEN <<merged>> ELSE <<>>,
      global |-> global]

\* renderContext merging the event's context into the global context
\* object it was handed.
renderContextMergesInPlace(ev, global) ==
  LET local == ev.context
      merged == ProtoMerge(local, global)
      threw == validateContext(merged)
  IN [threw |-> threw, value |-> IF threw = "" THEN <<merged>> ELSE <<>>,
      global |-> merged]

\* renderContext, lines 494-499: the exception thrown or the merged context
\* returned, and the global context object afterwards (merge returns a new
\* context and writes to neither argument).
renderContext(ev, global) ==
  LET local == ev.context
      merged == ProtoMerge(local, global)
      threw == validateContext(merged)
  IN [threw |-> threw, value |-> IF threw = "" THEN <<merged>> ELSE <<>>,
      global |-> global]

\* bloombox.telemetry.Context.serializeProto: the JSON form of a context.
serializeProto(context) == <<context.fingerprint, context.group>>

\* The request record bloombox.telemetry.rpc.TelemetryRPC holds.  The two
\* slot fields are own properties the record does not have until something
\* writes them.
TelemetryRPC(uuid, method, onSuccess, onFailure, body, context) ==
  [uuid |-> uuid, rpcMethod |-> method, onSuccess |-> onSuccess,
   onFailure |-> onFailure, body |-> body, context |-> context,
   successCallback |-> UNDEFINED, failureCallback |-> UNDEFINED]

\* A function value taken off an object: `this.onSuccess` is the prototype
\* method with no receiver attached (self = 0).
MethodRef(name, self) == [method |-> name, self |-> self]

\* generateRPC with the request identified by a newly generated identifier
\* instead of renderUUID().
generateRPCFreshUuid(ev, global, objs) ==
  LET rc == renderContext(ev, global) IN
  IF rc.threw # ""
  THEN [threw |-> rc.threw, value |-> <<>>, global |-> rc.global]
  ELSE
    LET mergedContext == rc.value[1]
        rpcPayload == renderPayload(ev)
        resolvedPayload == IF rpcPayload = NULL THEN {}
                           ELSE objs[rpcPayload].fields
        body == ObjectAssign(resolvedPayload,
                             {<<KeyContext, serializeProto(mergedContext)>>})
    IN [threw |-> "", global |-> rc.global,
        value |-> <<TelemetryRPC(generateUUID(0), rpcMethod(ev),
                                 MethodRef("onSuccess", 0),
                                 MethodRef("onFailure", 0), body,
                                 mergedContext)>>]

\* generateRPC, lines 383-428.
generateRPC(ev, global, objs) ==
  LET rc == renderContext(ev, global) IN
  IF rc.threw # ""
  THEN [threw |-> rc.threw, value |-> <<>>, global |-> rc.global]
  ELSE
    LET mergedContext == rc.value[1]
        method == rpcMethod(ev)
        rpcPayload == renderPayload(ev)
        uuid == renderUUID(ev)
        renderedContext == serializeProto(mergedContext)
        resolvedPayload == IF rpcPayload = NULL THEN {}
                           ELSE objs[rpcPayload].fields
        body == ObjectAssign(resolvedPayload,
                             {<<KeyContext, renderedContext>>})
    IN [threw |-> "", global |-> rc.global,
        value |-> <<TelemetryRPC(uuid, method, MethodRef("onSuccess", 0),
                                 MethodRef("onFailure", 0), body,
                                 mergedContext)>>]

\* The trampoline body without the final `slot = null`.
TrampolineKeepsSlot(slot, args) ==
  [call |-> IF Truthy(slot) /\ IsFunction(slot)
            THEN <<[fn |-> slot, args |-> args]>>
            ELSE <<>>,
   slot |-> slot]

\* The trampoline body testing the slot for truthiness only.
TrampolineWithoutTypeCheck(slot, args) ==
  [call |-> IF Truthy(slot)
            THEN <<[fn |-> slot, args |-> args]>>
            ELSE <<>>,
   slot |-> NULL]

\* The body shared by onSuccess (lines 332-337) and onFailure (lines
\* 349-354), applied to the slot of whatever object `this` is: the callback
\* invocation made and the slot afterwards.
Trampoline(slot, args) ==
  [call |-> IF Truthy(slot) /\ IsFunction(slot)
            THEN <<[fn |-> slot, args |-> args]>>
            ELSE <<>>,
   slot |-> NULL]

\* The same body (lines 332-337, 349-354) when the callback, from inside
\* each of its first `depth` entries, calls the trampoline it was invoked by
\* again on the same event.  The slot is assigned null only after the
\* callback has returned (lines 336, 353), so a nested call finds it as the
\* outer call did.  Returns how often the callback body was entered and the
\* slot afterwards.
RECURSIVE TrampolineReentrant(_, _, _)
TrampolineReentrant(slot, args, depth) ==
  IF Truthy(slot) /\ IsFunction(slot)
  THEN LET nested == IF depth > 0
                     THEN TrampolineReentrant(slot, args, depth - 1)
                     ELSE [entries |-> 0, slot |-> slot]
       IN [entries |-> 1 + nested.entries, slot |-> NULL]
  ELSE [entries |-> 0, slot |-> NULL]

\* bloombox.telemetry.enqueue(rpc): hands the request to the dispatch queue
\* under the request's identifier, with the priority p it assigns.
TelemetryEnqueue(nodes, rpc, p, seq) ==
  HeapInsert(nodes, p, prepareQueuedEvent(rpc, rpc.uuid, seq))

\* ---------------------------------------------------------------------
\* part_001: EventQueue
\* ---------------------------------------------------------------------
BATCH_SIZE == 2

\* EventQueue.enqueue pushing onto the node array without filing the event
\* under its priority.
EventQueueEnqueueUnordered(nodes, priority, ev) ==
  Append(nodes, [key |-> priority, value |-> ev])

\* EventQueue.enqueue refusing an event whose identifier is queued already.
EventQueueEnqueueOncePerUuid(nodes, priority, ev) ==
  IF \E i \in 1..Len(nodes) : nodes[i].value.uuid = ev.uuid
  THEN nodes
  ELSE HeapInsert(nodes, priority, ev)

\* EventQueue.enqueue, lines 83-87.
EventQueueEnqueue(nodes, priority, ev) == HeapInsert(nodes, priority, ev)

\* The while loop of EventQueue.dequeue, lines 105-111: the heap afterwards
\* and the values mapper was called with, in order (with the priority each
\* one was filed under).
RECURSIVE DequeueLoop(_, _, _, _)
DequeueLoop(nodes, countToDequeue, handed, keys) ==
  IF countToDequeue > 0
  THEN LET r == HeapRemove(nodes) IN
       DequeueLoop(r.nodes, countToDequeue - 1, Append(handed, r.value),
                   Append(keys, r.key))
  ELSE [nodes |-> nodes, handed |-> handed, keys |-> keys]

\* EventQueue.dequeue handing items to the mapper and leaving them queued.
EventQueueDequeueKeepsItems(nodes, optAmt) ==
  LET countToDequeue == IF optAmt = NotGiven THEN BATCH_SIZE ELSE optAmt
      r == DequeueLoop(nodes, countToDequeue, <<>>, <<>>)
  IN [nodes |-> nodes, handed |-> r.handed, keys |-> r.keys]

\* EventQueue.dequeue draining a full batch whatever amount it is given.
EventQueueDequeueIgnoresAmount(nodes, optAmt) ==
  DequeueLoop(nodes, BATCH_SIZE, <<>>, <<>>)

\* EventQueue.dequeue, lines 100-112.
EventQueueDequeue(nodes, optAmt) ==
  LET countToDequeue == IF optAmt = NotGiven THEN BATCH_SIZE ELSE optAmt
  IN DequeueLoop(nodes, countToDequeue, <<>>, <<>>)

\* ---------------------------------------------------------------------
\* Actions
\* ---------------------------------------------------------------------
Constructed == {e \in Events : events[e].constructed}

\* new BaseEvent(context, method, opt_payload, opt_occurred, opt_uuid).
\* Event objects are numbered in allocation order.
Construct(e, context, optPayload, optOccurred, optUuid) ==
  /\ ~events[e].constructed
  /\ \A d \in Events : d < e => events[d].constructed
  /\ events' = [events EXCEPT ![e] =
        NewBaseEvent(context, 1, optPayload, optOccurred, optUuid,
                     uuidSeq, clock)]
  /\ objects' = FreezePayload(objects, optPayload)
  /\ uuidSeq' = IF Truthy(optUuid) THEN uuidSeq ELSE uuidSeq + 1
  /\ ctorArgs' = [ctorArgs EXCEPT ![e] =
        [occurred |-> optOccurred, uuid |-> optUuid,
         payload |-> optPayload,
         fields |-> IF Truthy(optPayload) THEN objects[optPayload].fields
                    ELSE {},
         at |-> clock, id |-> events'[e].uuid]]
  /\ last' = Outcome("new", e, <<>>, "", <<>>, <<>>)
  /\ UNCHANGED <<telemetry, clock, globalContext, queue, batch, inflight, sCount,
                 fCount, hist>>

\* The wall clock advances.
Tick ==
  /\ clock < MaxClock
  /\ clock' = clock + 1
  /\ UNCHANGED <<telemetry, uuidSeq, globalContext, objects, events, ctorArgs, queue,
                 batch, inflight, sCount, fCount, hist, last>>

\* event.onSuccess(status), invoked on the event itself.
OnSuccess(e, status) ==
  LET r == Trampoline(events[e].successCallback, <<status>>) IN
  /\ events[e].constructed
  /\ r.call # <<>> => sCount[e] < MaxCalls
  /\ events' = [events EXCEPT ![e].successCallback = r.slot]
  /\ sCount' = [sCount EXCEPT ![e] = IF r.call # <<>> THEN @ + 1 ELSE @]
  /\ hist' = [hist EXCEPT ![e].onS = Min(@ + 1, MaxCalls)]
  /\ last' = Outcome("onSuccess", e, <<status>>, "", r.call, <<>>)
  /\ UNCHANGED <<telemetry, clock, uuidSeq, globalContext, objects, ctorArgs, queue,
                 batch, inflight, fCount>>

\* event.onFailure(op, error, code), invoked on the event itself.
OnFailure(e, args) ==
  LET r == Trampoline(events[e].failureCallback, args) IN
  /\ events[e].constructed
  /\ r.call # <<>> => fCount[e] < MaxCalls
  /\ events' = [events EXCEPT ![e].failureCallback = r.slot]
  /\ fCount' = [fCount EXCEPT ![e] = IF r.call # <<>> THEN @ + 1 ELSE @]
  /\ hist' = [hist EXCEPT ![e].onF = Min(@ + 1, MaxCalls)]
  /\ last' = Outcome("onFailure", e, args, "", r.call, <<>>)
  /\ UNCHANGED <<telemetry, clock, uuidSeq, globalContext, objects, ctorArgs, queue,
                 batch, inflight, sCount>>

\* dispatch that keeps a callback that is still registered.
RegisterCallbacksKeepsEarlier(ev, success, failure) ==
  [ev EXCEPT !.successCallback = IF Truthy(@) THEN @
                                 ELSE IF Truthy(success) THEN success ELSE NULL,
             !.failureCallback = IF Truthy(@) THEN @
                                 ELSE IF Truthy(failure) THEN failure ELSE NULL]

\* event.onSuccess(status) with a success callback that calls
\* event.onSuccess(status) again from inside its first `depth` entries.
OnSuccessReentrant(e, status, depth) ==
  LET slot == events[e].successCallback
      r == TrampolineReentrant(slot, <<status>>, depth)
  IN
  /\ events[e].constructed
  /\ sCount[e] + r.entries <= MaxCalls
  /\ events' = [events EXCEPT ![e].successCallback = r.slot]
  /\ sCount' = [sCount EXCEPT ![e] = @ + r.entries]
  /\ hist' = [hist EXCEPT ![e].onS = Min(@ + 1, MaxCalls)]
  /\ last' = Outcome("onSuccess", e, <<status>>, "",
                     [i \in 1..r.entries |-> [fn |-> slot, args |-> <<status>>]],
                     <<depth>>)
  /\ UNCHANGED <<telemetry, clock, uuidSeq, globalContext, objects, ctorArgs,
                 queue, batch, inflight, fCount>>

\* event.onFailure(op, error, code) with a failure callback that calls
\* event.onFailure(op, error, code) again from inside its first `depth`
\* entries.
OnFailureReentrant(e, args, depth) ==
  LET slot == events[e].failureCallback
      r == TrampolineReentrant(slot, args, depth)
  IN
  /\ events[e].constructed
  /\ fCount[e] + r.entries <= MaxCalls
  /\ events' = [events EXCEPT ![e].failureCallback = r.slot]
  /\ fCount' = [fCount EXCEPT ![e] = @ + r.entries]
  /\ hist' = [hist EXCEPT ![e].onF = Min(@ + 1, MaxCalls)]
  /\ last' = Outcome("onFailure", e, args, "",
                     [i \in 1..r.entries |-> [fn |-> slot, args |-> args]],
                     <<depth>>)
  /\ UNCHANGED <<telemetry, clock, uuidSeq, globalContext, objects, ctorArgs,
                 queue, batch, inflight, sCount>>

\* Lines 443-444 of dispatch: the two slots are overwritten, a falsy
\* argument becoming null.
RegisterCallbacks(ev, success, failure) ==
  [ev EXCEPT !.successCallback = IF Truthy(success) THEN success ELSE NULL,
             !.failureCallback = IF Truthy(failure) THEN failure ELSE NULL]

\* The functions sitting in the slots of ev that dispatch(success, failure)
\* is not given again.
Displaced(ev, success, failure) ==
  {fn \in {ev.successCallback, ev.failureCallback} :
     IsFunction(fn) /\ fn \notin {success, failure}}

\* dispatch that generates the request first and registers the callbacks
\* only when that succeeded.
DispatchAsGeneratesFirst(op, e, success, failure, p) ==
  LET ev == RegisterCallbacks(events[e], success, failure)
      g == generateRPC(events[e], globalContext, objects)
  IN
  /\ events[e].constructed
  /\ events' = IF g.threw # "" THEN events ELSE [events EXCEPT ![e] = ev]
  /\ hist' = [hist EXCEPT ![e] =
        [s |-> IF Truthy(success) THEN success ELSE NULL,
         f |-> IF Truthy(failure) THEN failure ELSE NULL,
         onS |-> 0, onF |-> 0,
         old |-> Displaced(events[e], success, failure)]]
  /\ sCount' = [sCount EXCEPT ![e] = 0]
  /\ fCount' = [fCount EXCEPT ![e] = 0]
  /\ IF g.threw # ""
     THEN /\ queue' = queue
          /\ last' = Outcome(op, e, <<success, failure>>, g.threw, <<>>, <<>>)
     ELSE /\ Len(queue) < MaxQueue
          /\ queue' = TelemetryEnqueue(queue, g.value[1], p, uuidSeq)
          /\ last' = Outcome(op, e, <<success, failure>>, "", <<>>,
                             <<g.value[1].uuid>>)
  /\ globalContext' = g.global
  /\ batch' = NoBatch
  /\ UNCHANGED <<telemetry, clock, uuidSeq, objects, ctorArgs, inflight>>

\* dispatch(success, failure), lines 442-447; p is the priority the queue
\* entry gets.  op names the entry point: dispatch, or send (lines 480-482).
DispatchAs(op, e, success, failure, p) ==
  LET ev == RegisterCallbacks(events[e], success, failure)
      g == generateRPC(ev, globalContext, objects)
  IN
  /\ events[e].constructed
  /\ events' = [events EXCEPT ![e] = ev]
  /\ hist' = [hist EXCEPT ![e] =
        [s |-> IF Truthy(success) THEN success ELSE NULL,
         f |-> IF Truthy(failure) THEN failure ELSE NULL,
         onS |-> 0, onF |-> 0,
         old |-> Displaced(events[e], success, failure)]]
  /\ sCount' = [sCount EXCEPT ![e] = 0]
  /\ fCount' = [fCount EXCEPT ![e] = 0]
  /\ IF g.threw # ""
     THEN /\ queue' = queue
          /\ last' = Outcome(op, e, <<success, failure>>, g.threw, <<>>, <<>>)
     ELSE /\ Len(queue) < MaxQueue
          /\ queue' = TelemetryEnqueue(queue, g.value[1], p, uuidSeq)
          /\ last' = Outcome(op, e, <<success, failure>>, "", <<>>,
                             <<g.value[1].uuid>>)
  /\ globalContext' = g.global
  /\ batch' = NoBatch
  /\ UNCHANGED <<telemetry, clock, uuidSeq, objects, ctorArgs, inflight>>

Dispatch(e, success, failure, p) == DispatchAs("dispatch", e, success, failure, p)

\* send() that dispatches with the callbacks already registered.
SendKeepsCallbacks(e, p) ==
  DispatchAs("send", e, events[e].successCallback, events[e].failureCallback, p)

\* send(), lines 480-482: dispatch(null, null).
Send(e, p) == DispatchAs("send", e, NULL, NULL, p)

\* bloombox.telemetry.abort(uuid): cancels the transport operation that is
\* correlated by the identifier; the dispatch queue is not its business.
TelemetryAbort(nodes, uuid) == nodes

\* abort(), lines 455-458.
\* abort() that also wipes the identifier of the aborted event.
abortClearsUuid(ev) == [uuid |-> renderUUID(ev), ev |-> [ev EXCEPT !.uuid = 0]]

\* abort() that also drops the callbacks of the aborted event.
abortClearsCallbacks(ev) ==
  [uuid |-> renderUUID(ev),
   ev |-> [ev EXCEPT !.successCallback = NULL, !.failureCallback = NULL]]

\* uuid is what bloombox.telemetry.abort is called with, ev the event
\* afterwards.
abort(ev) == [uuid |-> renderUUID(ev), ev |-> ev]

Abort(e) ==
  LET r == abort(events[e]) IN
  /\ events[e].constructed
  /\ events' = [events EXCEPT ![e] = r.ev]
  /\ queue' = TelemetryAbort(queue, r.uuid)
  /\ last' = Outcome("abort", e, <<>>, "", <<>>, <<r.uuid>>)
  /\ UNCHANGED <<telemetry, clock, uuidSeq, globalContext, objects, ctorArgs,
                 batch, inflight, sCount, fCount, hist>>

\* A call of one of the side-effect free methods; its result is recorded.
Query(op, e, args, threw, value) ==
  /\ events[e].constructed
  /\ last' = Outcome(op, e, args, threw, <<>>, value)
  /\ UNCHANGED <<telemetry, clock, uuidSeq, globalContext, objects, events, ctorArgs,
                 queue, batch, inflight, sCount, fCount, hist>>

RenderUUID(e) == Query("renderUUID", e, <<>>, "", <<renderUUID(events[e])>>)

RenderOccurrence(e, now) ==
  Query("renderOccurrence", e, <<now>>, "", <<renderOccurrence(events[e], now)>>)

\* A call of one of the methods that are handed the global context; r is
\* what the method did.
QueryContext(op, e, r) ==
  /\ events[e].constructed
  /\ globalContext' = r.global
  /\ last' = Outcome(op, e, <<>>, r.threw, <<>>, r.value)
  /\ UNCHANGED <<telemetry, clock, uuidSeq, objects, events, ctorArgs, queue,
                 batch, inflight, sCount, fCount, hist>>

RenderContext(e) ==
  QueryContext("renderContext", e, renderContext(events[e], globalContext))

GenerateRPC(e) ==
  QueryContext("generateRPC", e,
               generateRPC(events[e], globalContext, objects))

\* EventQueue.enqueue(priority, ev) called directly.
Enqueue(priority, ev) ==
  /\ Len(queue) < MaxQueue
  /\ queue' = EventQueueEnqueue(queue, priority, ev)
  /\ last' = Outcome("enqueue", 0, <<priority>>, "", <<>>, <<ev.uuid>>)
  /\ batch' = NoBatch
  /\ UNCHANGED <<telemetry, clock, uuidSeq, globalContext, objects, events, ctorArgs,
                 inflight, sCount, fCount, hist>>

\* EventQueue.dequeue(mapper, opt_amt).  The mapper either only records what
\* it is given ("record") or is the drain that passes every queued event it
\* is given on to the transport ("transport").
Dequeue(mapper, optAmt) ==
  LET r == EventQueueDequeue(queue, optAmt) IN
  /\ queue' = r.nodes
  /\ batch' = [amount |-> IF optAmt = NotGiven THEN BATCH_SIZE ELSE optAmt,
               n |-> Len(queue),
               handed |-> r.handed, keys |-> r.keys]
  /\ inflight' = IF mapper = "transport"
                 THEN inflight \cup
                      {r.handed[i][1] : i \in {j \in 1..Len(r.handed) :
                                                 r.handed[j] # <<>>}}
                 ELSE inflight
  /\ last' = Outcome("dequeue", 0, <<optAmt>>, "", <<>>, <<>>)
  /\ UNCHANGED <<telemetry, clock, uuidSeq, globalContext, objects, events, ctorArgs,
                 sCount, fCount, hist>>

\* The transport calls a trampoline carried by a request record it holds.
\* The record carries a bare function, so the receiver `this` is decided by
\* the form of the call: "method" (rpc.onSuccess(...), this is the record),
\* "strict" (a plain call in strict code, this is undefined and reading the
\* slot throws) or "sloppy" (a plain call in sloppy code, this is the global
\* object, which has no such slot).  A function bound to an event (self # 0)
\* runs on that event whatever the form.
TransportCall(name, q, args, form) ==
  LET ref == IF name = "onSuccess" THEN q.rpc.onSuccess ELSE q.rpc.onFailure
      op == IF name = "onSuccess" THEN "rpc.onSuccess" ELSE "rpc.onFailure"
      onEvent == Trampoline(IF name = "onSuccess"
                            THEN events[ref.self].successCallback
                            ELSE events[ref.self].failureCallback, args)
      onRecord == Trampoline(IF name = "onSuccess"
                             THEN q.rpc.successCallback
                             ELSE q.rpc.failureCallback, args)
      written == IF name = "onSuccess"
                 THEN [q EXCEPT !.rpc.successCallback = NULL]
                 ELSE [q EXCEPT !.rpc.failureCallback = NULL]
  IN
  /\ q \in inflight
  /\ IF ref.self # 0
     THEN /\ onEvent.call # <<>> =>
               IF name = "onSuccess" THEN sCount[ref.self] < MaxCalls
               ELSE fCount[ref.self] < MaxCalls
          /\ events' = IF name = "onSuccess"
                       THEN [events EXCEPT ![ref.self].successCallback = NULL]
                       ELSE [events EXCEPT ![ref.self].failureCallback = NULL]
          /\ sCount' = IF name = "onSuccess" /\ onEvent.call # <<>>
                       THEN [sCount EXCEPT ![ref.self] = @ + 1] ELSE sCount
          /\ fCount' = IF name = "onFailure" /\ onEvent.call # <<>>
                       THEN [fCount EXCEPT ![ref.self] = @ + 1] ELSE fCount
          /\ hist' = IF name = "onSuccess"
                     THEN [hist EXCEPT ![ref.self].onS = Min(@ + 1, MaxCalls)]
                     ELSE [hist EXCEPT ![ref.self].onF = Min(@ + 1, MaxCalls)]
          /\ inflight' = inflight
          /\ last' = Outcome(op, 0, args, "", onEvent.call, <<q.rpc.uuid>>)
     ELSE /\ UNCHANGED <<events, sCount, fCount, hist>>
          /\ inflight' = IF form = "method"
                         THEN (inflight \ {q}) \cup {written}
                         ELSE inflight
          /\ last' = Outcome(op, 0, args,
                             IF form = "strict" THEN "TypeError" ELSE "",
                             IF form = "method" THEN onRecord.call ELSE <<>>,
                             <<q.rpc.uuid>>)
  /\ UNCHANGED <<telemetry, clock, uuidSeq, globalContext, objects, ctorArgs, queue,
                 batch>>

TransportSuccess(q, status, form) == TransportCall("onSuccess", q, <<status>>, form)

TransportFailure(q, args, form) == TransportCall("onFailure", q, args, form)

CallForms == {"method", "strict", "sloppy"}

\* (status, error, code) triples a failure is reported with.
FailureArgs == {<<ERROR, NULL, NULL>>, <<ERROR, 1, 1>>}

\* The application writes a field of a payload object it created: before it
\* hands the object to an event, or afterwards through the reference it
\* kept.
CallerWrite(o, key, value, strict) ==
  LET r == WriteField(objects, o, key, value, strict) IN
  /\ objects' = r.objs
  /\ last' = Outcome("write", 0, <<o, key>>, r.threw, <<>>, <<>>)
  /\ UNCHANGED <<telemetry, clock, uuidSeq, globalContext, events, ctorArgs,
                 queue, batch, inflight, sCount, fCount, hist>>

\* ---------------------------------------------------------------------
\* part_000: setup, boot, sendInitialEvents
\* ---------------------------------------------------------------------
\* bloombox.telemetry before setup() and boot() have run: no endpoint is
\* configured, nobody opted out, no ping was issued, no ping callback ran,
\* nothing was logged.
NoTelemetry ==
  [endpoint |-> "", optOut |-> FALSE, pending |-> 0, pinged |-> 0,
   succeeded |-> 0, log |-> ""]

\* The default endpoint, bloombox.telemetry.TELEMETRY_API_ENDPOINT.
TELEMETRY_API_ENDPOINT == "TELEMETRY_API_ENDPOINT"

\* setup, lines 37-54.  partner and location are strings ('' is 0),
\* endpoint is "" when not given.  Returns the module state and whether the
\* callback was called.
setup(t, partner, location, endpoint) ==
  IF ~Truthy(partner) \/ ~Truthy(location)
  THEN [t |-> [t EXCEPT !.log = "Partner or location code is not defined."],
        called |-> FALSE]
  ELSE [t |-> [t EXCEPT !.endpoint = IF endpoint # "" THEN endpoint
                                     ELSE TELEMETRY_API_ENDPOINT,
                        !.log = "Telemetry is ready for use."],
        called |-> TRUE]

\* The flag read once when the module boots and reused afterwards.
sendInitialEventsCached(t) ==
  [t EXCEPT !.log = "Would send initial events."]

\* sendInitialEvents, lines 63-72: reads didOptOut() and logs one of two
\* lines; neither branch generates or queues a request.
sendInitialEvents(t) ==
  IF t.optOut
  THEN [t EXCEPT !.log = "User opted-out of telemetry, skipping initial events."]
  ELSE [t EXCEPT !.log = "Would send initial events."]

\* boot, lines 81-96: reads didOptOut(); opted out it only logs, otherwise
\* it logs and issues the ping with the callback of lines 89-94.
boot(t) ==
  IF t.optOut
  THEN [t EXCEPT !.log = "User opted-out of telemetry, skipping initial ping."]
  ELSE [t EXCEPT !.log = "Sending initial telemetry ping...",
                 !.pending = @ + 1, !.pinged = @ + 1]

\* The callback boot hands to ping, lines 89-94: logs the latency, then
\* calls sendInitialEvents.
pingCallback(t, latency) ==
  sendInitialEvents([t EXCEPT !.log = "Telemetry service is online.",
                              !.pending = @ - 1, !.succeeded = @ + 1])

\* bloombox.telemetry.setup(partner, location, apikey, callback, endpoint).
Setup(partner, location, endpoint) ==
  LET r == setup(telemetry, partner, location, endpoint) IN
  /\ telemetry' = r.t
  /\ last' = Outcome("setup", 0, <<partner, location>>, "",
                     IF r.called THEN <<[fn |-> 1, args |-> <<>>]>> ELSE <<>>,
                     <<>>)
  /\ UNCHANGED <<clock, uuidSeq, globalContext, objects, events, ctorArgs,
                 queue, batch, inflight, sCount, fCount, hist>>

\* The user opts out or back in: what didOptOut() returns from now on.
SetOptOut(b) ==
  /\ telemetry.optOut # b
  /\ telemetry' = [telemetry EXCEPT !.optOut = b]
  /\ last' = Outcome("optOut", 0, <<>>, "", <<>>, <<>>)
  /\ UNCHANGED <<clock, uuidSeq, globalContext, objects, events, ctorArgs,
                 queue, batch, inflight, sCount, fCount, hist>>

\* bloombox.telemetry.boot().
Boot ==
  /\ telemetry.pinged < MaxPings
  /\ telemetry' = boot(telemetry)
  /\ last' = Outcome("boot", 0, <<>>, "", <<>>, <<>>)
  /\ UNCHANGED <<clock, uuidSeq, globalContext, objects, events, ctorArgs,
                 queue, batch, inflight, sCount, fCount, hist>>

\* A ping comes through: the callback of lines 89-94 runs with its latency.
PingSuccess(latency) ==
  /\ telemetry.pending > 0
  /\ telemetry' = pingCallback(telemetry, latency)
  /\ last' = Outcome("ping", 0, <<latency>>, "", <<>>, <<>>)
  /\ UNCHANGED <<clock, uuidSeq, globalContext, objects, events, ctorArgs,
                 queue, batch, inflight, sCount, fCount, hist>>

\* ---------------------------------------------------------------------
\* Specifications
\* ---------------------------------------------------------------------
Init ==
  /\ clock = 1
  /\ uuidSeq = 0
  /\ globalContext \in GlobalContexts
  /\ objects = [o \in ObjIds |-> [frozen |-> FALSE, fields |-> {<<KeyA, <<1>>>>}]]
  /\ events = [e \in Events |-> NoEvent]
  /\ ctorArgs = [e \in Events |-> NoArgs]
  /\ queue = <<>>
  /\ batch = NoBatch
  /\ inflight = {}
  /\ sCount = [e \in Events |-> 0]
  /\ fCount = [e \in Events |-> 0]
  /\ hist = [e \in Events |-> NoHist]
  /\ telemetry = NoTelemetry
  /\ last = Outcome("init", 0, <<>>, "", <<>>, <<>>)

Amounts == {NotGiven} \cup (0..MaxQueue)

\* The pipeline from construction to the queue: events with and without a
\* context of their own, under any global context, sent, aborted and drained.
Next ==
  \/ \E e \in Events, c \in {ValidContext, EmptyContext}, u \in {0, 1} :
       Construct(e, c, NULL, NotGiven, u)
  \/ \E e \in Events : Dispatch(e, NULL, NULL, 1)
  \/ \E e \in Events : Send(e, 1)
  \/ \E e \in Events : Abort(e)
  \/ Dequeue("record", NotGiven)

Spec == Init /\ [][Next]_vars

\* Context rendering: events with any local context under any global
\* context, asked for their context and their request.
NextContext ==
  \/ \E e \in Events, c \in LocalContexts :
       Construct(e, c, NULL, NotGiven, 0)
  \/ \E e \in Events : RenderContext(e)
  \/ \E e \in Events : GenerateRPC(e)

SpecContext == Init /\ [][NextContext]_vars

\* The global context under events that differ in their own context:
\* asked for their context and their request, dispatched and sent.
NextAmbient ==
  \/ \E e \in Events, c \in LocalContexts :
       Construct(e, c, NULL, NotGiven, 0)
  \/ \E e \in Events : RenderContext(e)
  \/ \E e \in Events : GenerateRPC(e)
  \/ \E e \in Events : Dispatch(e, NULL, NULL, 1)
  \/ \E e \in Events : Send(e, 1)
  \/ Dequeue("record", NotGiven)

SpecAmbient == Init /\ [][NextAmbient]_vars

\* One event and its callback slots: every operation of the event, with the
\* trampolines invoked on the event itself in any order and number.
InitCallbacks == Init /\ globalContext = EmptyContext

NextCallbacks ==
  \/ \E c \in {ValidContext, EmptyContext}, u \in {0, 1} :
       Construct(1, c, NULL, NotGiven, u)
  \/ \E s \in {NULL} \cup Fns, f \in {NULL} \cup Fns : Dispatch(1, s, f, 1)
  \/ Send(1, 1)
  \/ \E st \in Statuses : OnSuccess(1, st)
  \/ \E a \in FailureArgs : OnFailure(1, a)
  \/ Abort(1)
  \/ RenderUUID(1)
  \/ GenerateRPC(1)
  \/ Dequeue("record", NotGiven)

SpecCallbacks == InitCallbacks /\ [][NextCallbacks]_vars

\* One event dispatched and sent again and again with every kind of value
\* in the callback arguments, its trampolines running in between.
NextRedispatch ==
  \/ \E c \in {ValidContext, EmptyContext} : Construct(1, c, NULL, NotGiven, 0)
  \/ \E s \in CallbackArgs, f \in CallbackArgs : Dispatch(1, s, f, 1)
  \/ Send(1, 1)
  \/ OnSuccess(1, OK)
  \/ OnFailure(1, <<ERROR, NULL, NULL>>)
  \/ Dequeue("record", NotGiven)

SpecRedispatch == InitCallbacks /\ [][NextRedispatch]_vars

\* One event, dispatched, drained to the transport, and the transport
\* calling the trampolines the request records carry.
NextTransport ==
  \/ Construct(1, ValidContext, NULL, NotGiven, 0)
  \/ \E s \in Fns \cup {NULL}, f \in Fns \cup {NULL} : Dispatch(1, s, f, 1)
  \/ Dequeue("transport", NotGiven)
  \/ \E q \in inflight, st \in Statuses, form \in CallForms :
       TransportSuccess(q, st, form)
  \/ \E q \in inflight, a \in FailureArgs, form \in CallForms :
       TransportFailure(q, a, form)

SpecTransport == InitCallbacks /\ [][NextTransport]_vars

\* The queue on its own: queued events filed under any priority, drained in
\* batches of any size by a mapper that records what it is given.
SampleRPC(u) ==
  TelemetryRPC(u, 1, MethodRef("onSuccess", 0), MethodRef("onFailure", 0),
               {<<KeyContext, serializeProto(ValidContext)>>}, ValidContext)

SampleQueuedEvents == {prepareQueuedEvent(SampleRPC(u), u, 0) : u \in {1, 2}}

NextQueue ==
  \/ \E p \in Priorities, ev \in SampleQueuedEvents : Enqueue(p, ev)
  \/ \E n \in Amounts : Dequeue("record", n)

SpecQueue == InitCallbacks /\ [][NextQueue]_vars

\* Construction time against the clock: events built with and without an
\* explicit occurrence timestamp, asked for their occurrence at any `now`.
NextOccurrence ==
  \/ Tick
  \/ \E e \in Events, t \in {NotGiven} \cup Times :
       Construct(e, ValidContext, NULL, t, 0)
  \/ \E e \in Events, now \in Times : RenderOccurrence(e, now)

SpecOccurrence == InitCallbacks /\ [][NextOccurrence]_vars

\* One event whose callbacks call the trampoline that invoked them again
\* while they run.
NextReentrant ==
  \/ \E c \in {ValidContext, EmptyContext} : Construct(1, c, NULL, NotGiven, 0)
  \/ \E s \in {NULL} \cup Fns, f \in {NULL} \cup Fns : Dispatch(1, s, f, 1)
  \/ \E d \in 0..MaxDepth : OnSuccessReentrant(1, OK, d)
  \/ \E d \in 0..MaxDepth : OnFailureReentrant(1, <<ERROR, NULL, NULL>>, d)
  \/ Dequeue("record", NotGiven)

SpecReentrant == InitCallbacks /\ [][NextReentrant]_vars

\* Payloads: events are built around objects the application keeps writing
\* to, and then go through every operation of the event.
FieldValues == {<<1>>, <<2>>}

NextPayload ==
  \/ \E p \in {NULL} \cup ObjIds : Construct(1, ValidContext, p, NotGiven, 0)
  \/ \E o \in ObjIds, k \in {KeyContext, KeyA}, v \in FieldValues,
        strict \in BOOLEAN :
       CallerWrite(o, k, v, strict)
  \/ GenerateRPC(1)
  \/ Dispatch(1, 1, 1, 1)
  \/ Send(1, 1)
  \/ Abort(1)
  \/ OnSuccess(1, OK)
  \/ OnFailure(1, <<ERROR, NULL, NULL>>)
  \/ Dequeue("record", NotGiven)

SpecPayload == InitCallbacks /\ [][NextPayload]_vars

\* Startup: the user opts out and back in at any time while boot runs and
\* its pings come through.
Latencies == {1, 2}

NextBoot ==
  \/ \E partner \in {0, 1}, location \in {0, 1}, endpoint \in {"", "override"} :
       Setup(partner, location, endpoint)
  \/ \E b \in BOOLEAN : SetOptOut(b)
  \/ Boot
  \/ \E latency \in Latencies : PingSuccess(latency)

SpecBoot == InitCallbacks /\ [][NextBoot]_vars

\* ---------------------------------------------------------------------
\* Claims
\* ---------------------------------------------------------------------
IsDequeue == last.op = "dequeue"

\* C1: after dispatch(s, f), whatever sequence of onSuccess and onFailure
\* invocations follows, at most one of s and f is invoked, and that one at
\* most once: the two callbacks of one dispatch are never both invoked.
C1_AtMostOneCallbackPerDispatch ==
  \A e \in Events : sCount[e] + fCount[e] <= 1

\* C2: after dispatch(s, f) with a callable s, k >= 1 invocations of
\* onSuccess on the event invoke s exactly once, on the first of them, and
\* leave the success slot empty; none invoked, s has not run and is still
\* registered.  The same for onFailure and f.
C2_TrampolineInvokesOnce ==
  \A e \in Events :
    /\ IsFunction(hist[e].s) =>
         IF hist[e].onS >= 1
         THEN sCount[e] = 1 /\ events[e].successCallback = NULL
         ELSE sCount[e] = 0 /\ events[e].successCallback = hist[e].s
    /\ IsFunction(hist[e].f) =>
         IF hist[e].onF >= 1
         THEN fCount[e] = 1 /\ events[e].failureCallback = NULL
         ELSE fCount[e] = 0 /\ events[e].failureCallback = hist[e].f

\* Both trampolines were invoked twice on an event dispatched with two
\* callables.
C2_Witness ==
  \E e \in Events :
    /\ IsFunction(hist[e].s) /\ IsFunction(hist[e].f)
    /\ hist[e].onS >= 2 /\ hist[e].onF >= 2
    /\ sCount[e] = 1 /\ fCount[e] = 1

\* C3: when the transport invokes the success trampoline of a request record
\* with a status, the callback registered on the originating event is invoked
\* with that status; when it invokes the failure trampoline with (status,
\* error, code), the event's failure callback is invoked with those three.
C3_RecordTrampolinesReachEvent ==
  [][\A e \in Events :
       /\ ( /\ last'.op = "rpc.onSuccess"
            /\ events[e].constructed
            /\ last'.value = <<renderUUID(events[e])>>
            /\ IsFunction(events[e].successCallback) )
          => last'.call = <<[fn |-> events[e].successCallback,
                             args |-> last'.args]>>
       /\ ( /\ last'.op = "rpc.onFailure"
            /\ events[e].constructed
            /\ last'.value = <<renderUUID(events[e])>>
            /\ IsFunction(events[e].failureCallback) )
          => last'.call = <<[fn |-> events[e].failureCallback,
                             args |-> last'.args]>>]_vars

\* C4: dequeue(mapper, amount) on a queue of n items invokes mapper exactly
\* min(amount, n) times, never with an absent item.
C4_MapperOncePerRemovedItem ==
  IsDequeue =>
    /\ Len(batch.handed) = Min(batch.amount, batch.n)
    /\ \A i \in 1..Len(batch.handed) : batch.handed[i] # <<>>

\* C5: every item dequeue hands to the mapper has a priority no greater than
\* that of any item handed over after it in the same call and of any item
\* still in the queue.
C5_PriorityOrder ==
  IsDequeue =>
    \A i \in 1..Len(batch.keys) :
      batch.keys[i] # <<>> =>
        /\ \A j \in (i + 1)..Len(batch.keys) :
             batch.keys[j] # <<>> => batch.keys[i][1] <= batch.keys[j][1]
        /\ \A k \in 1..Len(queue) : batch.keys[i][1] <= queue[k].key

\* Three items filed under the priorities 5, 1 and 3 were handed over in one
\* call, lowest first.
C5_Witness ==
  /\ IsDequeue
  /\ batch.keys = << <<1>>, <<3>>, <<5>> >>

\* C6: renderContext and generateRPC throw the context exception exactly
\* when the merged context lacks a fingerprint or a group; otherwise they
\* return (a request carrying) the merged context.
C6_ValidationIffMissing ==
  last.op \in {"renderContext", "generateRPC"} =>
    LET merged == ProtoMerge(events[last.e].context, globalContext)
        missing == merged.fingerprint = 0 \/ merged.group = 0
    IN /\ (last.threw = "ContextException") <=> missing
       /\ last.threw \in {"", "ContextException"}
       /\ missing => last.value = <<>>
       /\ ~missing => /\ Len(last.value) = 1
                      /\ IF last.op = "renderContext"
                         THEN last.value[1] = merged
                         ELSE last.value[1].context = merged

\* generateRPC threw for a merged context that has a fingerprint and no
\* group.
C6_Witness ==
  /\ last.op = "generateRPC"
  /\ last.threw = "ContextException"
  /\ ProtoMerge(events[last.e].context, globalContext).fingerprint # 0
  /\ ProtoMerge(events[last.e].context, globalContext).group = 0

\* C7: a dispatch or send on an event whose merged context fails validation
\* throws to its caller and leaves the queue exactly as it was, and every
\* request in the queue carries a merged context that passed validation.
C7_NothingQueuedOnValidationFailure ==
  [][ /\ last'.op \in {"dispatch", "send"} =>
           LET merged == ProtoMerge(events'[last'.e].context, globalContext')
           IN IF merged.fingerprint = 0 \/ merged.group = 0
              THEN last'.threw = "ContextException" /\ queue' = queue
              ELSE last'.threw = ""
      /\ \A i \in 1..Len(queue') :
           /\ queue'[i].value.rpc.context.fingerprint # 0
           /\ queue'[i].value.rpc.context.group # 0 ]_vars

\* A dispatch threw on one event while the request of another is queued.
C7_Witness ==
  /\ last.op = "dispatch"
  /\ last.threw = "ContextException"
  /\ Len(queue) >= 1

\* C8: an event built with an explicit occurrence timestamp T (0 included)
\* renders T for every `now`; one built without renders the time of its
\* construction.
C8_OccurrenceIsExplicitOrConstructionTime ==
  last.op = "renderOccurrence" =>
    LET a == ctorArgs[last.e] IN
    last.value = <<IF a.occurred # NotGiven THEN a.occurred ELSE a.at>>

\* C9: renderUUID() returns the identifier the event got at construction,
\* whatever operations the event has been through.
C9_UuidFixedAtConstruction ==
  /\ \A e \in Events :
       events[e].constructed => renderUUID(events[e]) = ctorArgs[e].id
  /\ last.op = "renderUUID" => last.value = <<ctorArgs[last.e].id>>

\* renderUUID was called on an event that has been dispatched with a
\* callback, has had both trampolines invoked and has a request queued.
C9_Witness ==
  /\ last.op = "renderUUID"
  /\ hist[last.e].onS >= 1 /\ hist[last.e].onF >= 1
  /\ sCount[last.e] = 1
  /\ Len(queue) >= 1

C11_PayloadFrozenAndUnchanged ==
  \A e \in Constructed :
    /\ events[e].payload = ctorArgs[e].payload
    /\ Truthy(ctorArgs[e].payload) =>
         /\ objects[events[e].payload].frozen
         /\ objects[events[e].payload].fields = ctorArgs[e].fields

\* The application wrote to an object after an event was built around it,
\* and the event has been dispatched since construction.
C11_Witness ==
  /\ last.op = "write"
  /\ \E e \in Constructed :
       /\ events[e].payload = last.args[1]
       /\ hist[e].s # NULL

\* C12: boot() with the user opted out issues no ping and sends no startup
\* events; boot() with the user not opted out issues the ping, and the
\* startup events are sent (requests are generated and queued) when the
\* ping has succeeded and not before.
C12_BootPingsThenSendsStartupEvents ==
  [][/\ (last'.op = "boot" /\ telemetry.optOut) =>
          /\ telemetry'.pending = telemetry.pending
          /\ queue' = queue
     /\ (last'.op = "boot" /\ ~telemetry.optOut) =>
          /\ telemetry'.pending = telemetry.pending + 1
          /\ queue' = queue
     /\ Len(queue') > Len(queue) => last'.op = "ping"
     /\ (last'.op = "ping" /\ ~telemetry.optOut) =>
          Len(queue') > Len(queue)]_vars

\* C19: sendInitialEvents reads the opt-out flag when it runs: if the user
\* was not opted out when boot() issued the ping but is opted out when the
\* ping comes through, sendInitialEvents takes the opted-out branch and no
\* startup request is queued.
C19_OptOutReadAfresh ==
  (last.op = "ping" /\ telemetry.optOut) =>
    /\ telemetry.log = "User opted-out of telemetry, skipping initial events."
    /\ queue = <<>>

\* A ping came through (boot issued it, so the user was not opted out then)
\* and the user is opted out now.
C19_Witness ==
  /\ last.op = "ping"
  /\ telemetry.optOut
  /\ telemetry.succeeded > 0

\* C13: a dispatch replaces the callbacks of an earlier dispatch of the same
\* event: right after dispatch(s2, f2) the slots hold s2 and f2 (empty
\* where a falsy value was passed), and every callback a trampoline invokes
\* afterwards is the one the latest dispatch was given, never one it
\* displaced.
C13_LaterDispatchReplacesCallbacks ==
  /\ last.op = "dispatch" =>
       /\ events[last.e].successCallback =
            (IF Truthy(last.args[1]) THEN last.args[1] ELSE NULL)
       /\ events[last.e].failureCallback =
            (IF Truthy(last.args[2]) THEN last.args[2] ELSE NULL)
  /\ (last.op = "onSuccess" /\ last.call # <<>>) =>
       /\ last.call[1].fn = hist[last.e].s
       /\ last.call[1].fn \notin hist[last.e].old
  /\ (last.op = "onFailure" /\ last.call # <<>>) =>
       /\ last.call[1].fn = hist[last.e].f
       /\ last.call[1].fn \notin hist[last.e].old

\* A dispatch displaced a function that was still registered, and a
\* trampoline of the event has invoked a callback since.
C13_Witness ==
  /\ last.op \in {"onSuccess", "onFailure"}
  /\ last.call # <<>>
  /\ hist[last.e].old # {}

\* C14: a value that is not a function, registered as a callback, is never
\* invoked: the trampoline of its slot calls nothing, raises no error, and
\* leaves the slot empty.
C14_NonCallableNeverInvoked ==
  \A e \in Constructed :
    /\ ~IsFunction(hist[e].s) =>
         /\ sCount[e] = 0
         /\ (last.op = "onSuccess" /\ last.e = e) =>
              /\ last.call = <<>>
              /\ last.threw = ""
              /\ events[e].successCallback = NULL
    /\ ~IsFunction(hist[e].f) =>
         /\ fCount[e] = 0
         /\ (last.op = "onFailure" /\ last.e = e) =>
              /\ last.call = <<>>
              /\ last.threw = ""
              /\ events[e].failureCallback = NULL

\* dispatch was given a truthy non-function as success callback and
\* onSuccess has run on the event since.
C14_Witness ==
  /\ last.op = "onSuccess"
  /\ hist[last.e].s = NOTFN
  /\ hist[last.e].onS >= 1

\* C17: send() behaves as dispatch(null, null): with a valid context it
\* enqueues exactly one request, it leaves both callback slots empty, and no
\* trampoline run afterwards invokes a callback, those registered by an
\* earlier dispatch included.
C17_SendIsDispatchWithoutCallbacks ==
  [][/\ last'.op = "send" =>
          /\ events'[last'.e].successCallback = NULL
          /\ events'[last'.e].failureCallback = NULL
          /\ hist'[last'.e].s = NULL /\ hist'[last'.e].f = NULL
          /\ IF validateContext(ProtoMerge(events[last'.e].context,
                                          globalContext)) = ""
             THEN Len(queue') = Len(queue) + 1
             ELSE queue' = queue
     /\ (last'.op \in {"onSuccess", "onFailure"}
         /\ hist[last'.e].s = NULL /\ hist[last'.e].f = NULL) =>
          /\ last'.call = <<>>
          /\ sCount' = sCount /\ fCount' = fCount]_vars

\* send() ran on an event whose slots held functions of an earlier
\* dispatch, and enqueued its request.
C17_Witness ==
  /\ last.op = "send"
  /\ last.threw = ""
  /\ hist[last.e].old # {}

\* C15: in the context renderContext(global) returns, every field the
\* event's own context has set carries the event's value, and every field
\* only the global context has set carries the global value.
C15_LocalContextOverridesGlobal ==
  (last.op = "renderContext" /\ last.threw = "") =>
    LET local == events[last.e].context
        merged == last.value[1]
    IN /\ local.fingerprint # 0 => merged.fingerprint = local.fingerprint
       /\ local.group # 0 => merged.group = local.group
       /\ local.fingerprint = 0 => merged.fingerprint = globalContext.fingerprint
       /\ local.group = 0 => merged.group = globalContext.group

\* renderContext returned a context for an event that sets a fingerprint
\* the global context sets differently and leaves the group to the global
\* context.
C15_Witness ==
  /\ last.op = "renderContext"
  /\ last.threw = ""
  /\ events[last.e].context.fingerprint = 1
  /\ globalContext.fingerprint = 2
  /\ events[last.e].context.group = 0
  /\ globalContext.group = 2
  /\ last.value = <<[fingerprint |-> 1, group |-> 2]>>

\* C16: enqueue(priority, item) is unconditional: it completes without an
\* exception, and the queue afterwards holds exactly the items it held
\* before plus the one given, so it is one longer, also when an item with
\* the same identifier is queued already.
C16_EnqueueAddsExactlyOne ==
  [][last'.op = "enqueue" =>
       LET Count(nodes, node) ==
             Cardinality({i \in 1..Len(nodes) : nodes[i] = node})
           Added(node) ==
             IF node.key = last'.args[1] /\ node.value.uuid = last'.value[1]
             THEN 1 ELSE 0
       IN /\ last'.threw = ""
          /\ Len(queue') = Len(queue) + 1
          /\ \A i \in 1..Len(queue') :
               Count(queue', queue'[i]) =
                 Count(queue, queue'[i]) + Added(queue'[i])
          /\ \A i \in 1..Len(queue) :
               Count(queue', queue[i]) =
                 Count(queue, queue[i]) + Added(queue[i])]_vars

\* The same event was enqueued twice under the same priority and both
\* entries are in the queue.
C16_Witness ==
  /\ last.op = "enqueue"
  /\ \E i, j \in 1..Len(queue) :
       /\ i # j
       /\ queue[i] = queue[j]
       /\ queue[i].key = last.args[1]
       /\ queue[i].value.uuid = last.value[1]

\* C20: dequeue(mapper, amount) returns after at most amount iterations of
\* its loop, each one calling mapper once, and leaves max(0, n - amount)
\* items in a queue that held n: it does not wait for items when amount
\* exceeds n.
C20_DequeueStopsAfterAmount ==
  IsDequeue =>
    /\ Len(batch.handed) <= batch.amount
    /\ Len(queue) = IF batch.n > batch.amount THEN batch.n - batch.amount
                    ELSE 0

\* dequeue was asked for more items than the non-empty queue held and
\* returned with the queue empty.
C20_Witness ==
  /\ IsDequeue
  /\ batch.n > 0
  /\ batch.amount > batch.n
  /\ queue = <<>>

\* C18: a callback is entered at most once per dispatch also when it is
\* re-entered: if the success callback, while it runs, calls the event's
\* onSuccess again (or the failure callback calls onFailure), the body of
\* the callback is still entered only once.
C18_AtMostOnceUnderReentrancy ==
  \A e \in Constructed :
    /\ sCount[e] <= 1
    /\ fCount[e] <= 1
    /\ (last.op \in {"onSuccess", "onFailure"} /\ last.e = e) =>
         Len(last.call) <= 1

\* C21: abort() on an event only forwards the event's identifier to the
\* transport abort: the dispatch queue, what was handed to the mapper, and
\* the event's identifier, payload, occurrence and callback slots are as
\* they were before the call.
C21_AbortChangesNothing ==
  [][last'.op = "abort" =>
       /\ last'.value = <<events[last'.e].uuid>>
       /\ last'.threw = ""
       /\ queue' = queue
       /\ batch' = batch
       /\ inflight' = inflight
       /\ events'[last'.e].uuid = events[last'.e].uuid
       /\ events'[last'.e].payload = events[last'.e].payload
       /\ events'[last'.e].occurred = events[last'.e].occurred
       /\ events'[last'.e].successCallback = events[last'.e].successCallback
       /\ events'[last'.e].failureCallback = events[last'.e].failureCallback
       /\ objects' = objects]_vars

\* abort() ran on an event with callbacks registered while a request of
\* the event was in the queue and another had been handed to the mapper.
C21_Witness ==
  /\ last.op = "abort"
  /\ IsFunction(events[last.e].successCallback)
  /\ IsFunction(events[last.e].failureCallback)
  /\ \E i \in 1..Len(queue) : queue[i].value.uuid = events[last.e].uuid
  /\ \E i \in 1..Len(batch.handed) :
       /\ batch.handed[i] # <<>>
       /\ batch.handed[i][1].uuid = events[last.e].uuid

\* C22: the body generateRPC builds has the keys of the rendered payload
\* (none when there is no payload) plus the key `context`; the value under
\* `context` is the serialized merged context, also when the payload has a
\* key `context` of its own, every other key carries the payload's value,
\* and the payload object is as it was before the call.
C22_BodyIsPayloadPlusContext ==
  [][(last'.op = "generateRPC" /\ last'.threw = "") =>
       LET ev == events[last'.e]
           fields == IF ev.payload = NULL THEN {} ELSE objects[ev.payload].fields
           merged == ProtoMerge(ev.context, globalContext)
           body == last'.value[1].body
       IN /\ Keys(body) = Keys(fields) \cup {KeyContext}
          /\ Cardinality(body) = Cardinality(Keys(body))
          /\ <<KeyContext, serializeProto(merged)>> \in body
          /\ \A kv \in fields : kv[1] # KeyContext => kv \in body
          /\ objects' = objects]_vars

\* generateRPC built a body for an event whose payload has a key `a` and a
\* key `context` of its own.
C22_Witness ==
  /\ last.op = "generateRPC"
  /\ last.threw = ""
  /\ events[last.e].payload # NULL
  /\ Keys(objects[events[last.e].payload].fields) = {KeyContext, KeyA}
  /\ \A kv \in objects[events[last.e].payload].fields :
       kv[1] = KeyContext =>
         kv[2] # serializeProto(ProtoMerge(events[last.e].context, globalContext))

\* C23: no operation of an event writes to the global context: over any
\* sequence of renderContext, generateRPC, dispatch and send calls by
\* events with differing contexts of their own the global context keeps its
\* field values, and a field an event has not set carries the global value
\* in that event's merged context, never a value another event has set.
C23_GlobalContextNeverMutated ==
  [][/\ globalContext' = globalContext
     /\ (last'.op \in {"renderContext", "generateRPC"} /\ last'.threw = "") =>
          LET local == events[last'.e].context
              merged == IF last'.op = "renderContext" THEN last'.value[1]
                        ELSE last'.value[1].context
          IN /\ local.fingerprint = 0 =>
                  merged.fingerprint = globalContext.fingerprint
             /\ local.group = 0 => merged.group = globalContext.group]_vars

\* An event with a context of its own was dispatched, and then an event
\* that leaves both fields to the global context rendered its context.
C23_Witness ==
  /\ last.op = "renderContext"
  /\ last.threw = ""
  /\ events[last.e].context = EmptyContext
  /\ last.value = <<globalContext>>
  /\ \E d \in Constructed :
       /\ d # last.e
       /\ events[d].context = ValidContext
       /\ \E i \in 1..Len(queue) : queue[i].value.uuid = events[d].uuid

\* C24: nothing is lost and nothing is duplicated in the queue: an enqueue
\* removes no entry, and a dequeue hands every entry it removes to the
\* mapper exactly once, with the identifier and the request it was
\* enqueued with, and leaves every other entry in the queue; so each entry
\* is either still queued or was handed over once, never both.
C24_NoLossNoDuplication ==
  [][LET Queued(nodes, node) ==
           Cardinality({i \in 1..Len(nodes) : nodes[i] = node})
         Handed(b, node) ==
           Cardinality({i \in 1..Len(b.handed) :
                          /\ b.handed[i] # <<>>
                          /\ b.handed[i][1] = node.value
                          /\ b.keys[i] = <<node.key>>})
     IN /\ last'.op = "enqueue" =>
             \A i \in 1..Len(queue) :
               Queued(queue', queue[i]) >= Queued(queue, queue[i])
        /\ last'.op = "dequeue" =>
             /\ \A i \in 1..Len(queue) :
                  Queued(queue, queue[i]) =
                    Queued(queue', queue[i]) + Handed(batch', queue[i])
             /\ \A i \in 1..Len(batch'.handed) :
                  batch'.handed[i] # <<>> =>
                    \E j \in 1..Len(queue) :
                      /\ queue[j].value = batch'.handed[i][1]
                      /\ <<queue[j].key>> = batch'.keys[i]
             /\ \A i \in 1..Len(queue') :
                  Queued(queue, queue'[i]) >= Queued(queue', queue'[i])]_vars

\* A dequeue handed two entries to the mapper and left a third in the
\* queue, an entry of the same event as one it handed over.
C24_Witness ==
  /\ IsDequeue
  /\ Len(batch.handed) = 2
  /\ batch.handed[1] # <<>> /\ batch.handed[2] # <<>>
  /\ batch.handed[1] # batch.handed[2]
  /\ Len(queue) = 1
  /\ queue[1].value = batch.handed[2][1]

\* C25: dispatch(s, f) writes the callback slots before it generates the
\* request: when the call fails context validation, nothing is enqueued,
\* yet the slots hold s and f (null where a falsy value was passed) and the
\* callbacks an earlier dispatch registered are gone from them.
C25_SlotsWrittenBeforeValidation ==
  [][(last'.op = "dispatch" /\ last'.threw = "ContextException") =>
       LET e == last'.e
           s == last'.args[1]
           f == last'.args[2]
       IN /\ queue' = queue
          /\ events'[e].successCallback = (IF Truthy(s) THEN s ELSE NULL)
          /\ events'[e].failureCallback = (IF Truthy(f) THEN f ELSE NULL)
          /\ \A fn \in Displaced(events[e], s, f) :
               /\ events'[e].successCallback # fn
               /\ events'[e].failureCallback # fn]_vars

\* A dispatch with a new success callback failed validation on an event
\* that still had a function of an earlier dispatch registered.
C25_Witness ==
  /\ last.op = "dispatch"
  /\ last.threw = "ContextException"
  /\ hist[last.e].old # {}
  /\ IsFunction(last.args[1])
  /\ events[last.e].successCallback = last.args[1]

====
